---- MODULE Spec2Model ----
(***************************************************************************)
(* Blackjack against a scripted dealer: the deck, the hands with their     *)
(* ace-aware value, the dealer policy and the round controller of          *)
(* src/src/main.rs and src/src/widgets.rs.                                 *)
(*                                                                         *)
(* Every state of Spec is an input boundary of run_as_tui's loop (the      *)
(* point where event::read blocks); an action is one whole key handler.    *)
(* Key events that change nothing (a press or repeat event, an unbound     *)
(* key while a hand is played) are stuttering steps and are left out.      *)
(***************************************************************************)
EXTENDS Integers, Sequences, FiniteSets, TLC

VARIABLES
    deck,         \* Deck.0: the cards left, drawn from the end
    player_hand,  \* Hand<Player>: [cards, status]
    dealer_hand,  \* Hand<Dealer>: [cards, status]
    game_state,   \* GameState
    running,      \* FALSE once the loop was left by a quit key
    last,         \* history: the last handler that dealt or played, the
                  \* number of reveal, do_dealer_action and check_hand
                  \* calls it made and of status changes away from
                  \* Revealed or back to Active in it; whether the deal of
                  \* the current hands ran across a reshuffle, and whether
                  \* a draw since that deal reshuffled
    u_hand,       \* SpecUnit: the hand a Hand method is applied to
    u_deck,       \* SpecUnit: the deck passed to it
    u_value,      \* SpecUnit: the result of count_value
    u_bust,       \* SpecUnit: the result of is_bust
    u_pc          \* SpecUnit: "input", "counted" or "stepped"

vars == <<deck, player_hand, dealer_hand, game_state, running, last,
          u_hand, u_deck, u_value, u_bust, u_pc>>

game_vars == <<deck, player_hand, dealer_hand, game_state, running, last>>
unit_vars == <<u_hand, u_deck, u_value, u_bust, u_pc>>

----------------------------------------------------------------------------
(* Bounds *)

\* Number of cards of NEW_DECK the modelled deck is built from (program: 52).
DeckSize == 5

\* Longest hand the Hand methods are applied to in SpecUnit.
MaxHandLen == 3

\* Longest deck passed to do_dealer_action in SpecUnit.
MaxUnitDeck == 2

\* Number of dealer policy steps after which the Hold loop is given up as
\* not ending.
MaxDealerSteps == 24

----------------------------------------------------------------------------
(* Cards *)

Ranks == <<"Two", "Three", "Four", "Five", "Six", "Seven", "Eight", "Nine",
           "Ten", "Jack", "Queen", "King", "Ace">>

Suits == <<"Spade", "Club", "Diamond", "Heart">>

Card(rank, suit) == <<rank, suit>>

get_value(rank) ==
    CASE rank = "Two"   -> 2
      [] rank = "Three" -> 3
      [] rank = "Four"  -> 4
      [] rank = "Five"  -> 5
      [] rank = "Six"   -> 6
      [] rank = "Seven" -> 7
      [] rank = "Eight" -> 8
      [] rank = "Nine"  -> 9
      [] rank = "Ten"   -> 10
      [] rank = "Jack"  -> 10
      [] rank = "Queen" -> 10
      [] rank = "King"  -> 10
      [] rank = "Ace"   -> 11

\* The canonical deck: thirteen ranks of spades, clubs, diamonds, hearts.
NEW_DECK ==
    [i \in 1..(Len(Suits) * Len(Ranks)) |->
        Card(Ranks[((i - 1) % Len(Ranks)) + 1], Suits[((i - 1) \div Len(Ranks)) + 1])]

\* The places of NEW_DECK the bounded deck takes its cards from, in the order
\* they are added as DeckSize grows: Ace, King, Six, Five, Ten of spades, Ace
\* of clubs, Nine of spades, Two of spades, Queen of clubs, Seven of clubs.
DeckPick == <<13, 12, 5, 4, 9, 26, 8, 1, 24, 19>>

\* The cards a fresh deck is made of: NEW_DECK cut down to DeckSize cards.
PlayDeck == [i \in 1..DeckSize |-> NEW_DECK[DeckPick[i]]]

\* u8 arithmetic of count_value
U8(x) == x % 256

----------------------------------------------------------------------------
(* Deck *)

\* shuffle that fills every position with a card picked at random, so that a
\* card can be picked twice.
shuffle_with_replacement(cards, num) ==
    { [i \in 1..Len(cards) |-> cards[f[i]]] : f \in [1..Len(cards) -> 1..Len(cards)] }

\* shuffle: every order of the cards is a possible result of the uniform
\* shuffle, whatever the number of passes.
shuffle(cards, num) ==
    { [i \in 1..Len(cards) |-> cards[p[i]]] : p \in Permutations(1..Len(cards)) }

\* Deck::new(): the canonical cards, shuffled once.
Deck_new == shuffle(PlayDeck, 1)

\* pop that returns the last element and leaves it in the vector.
pop_keeps_card(d) == [card |-> d[Len(d)], deck |-> d]

\* pop that takes the first element.
pop_takes_first(d) == [card |-> d[1], deck |-> SubSeq(d, 2, Len(d))]

\* Vec::pop on a non-empty vector: the last element and the rest.
pop(d) == [card |-> d[Len(d)], deck |-> SubSeq(d, 1, Len(d) - 1)]

\* Deck::draw: the possible pairs of drawn card and deck left.
draw(d) ==
    IF Len(d) > 0
    THEN {pop(d)}
    ELSE {pop(n) : n \in Deck_new}

----------------------------------------------------------------------------
(* Hand *)

Hand_new(initial) == [cards |-> initial, status |-> "Active"]

\* Deck::new_hand: two draws, the first drawn card first in the hand.
new_hand(d) ==
    UNION { { [hand |-> Hand_new(<<r1.card, r2.card>>), deck |-> r2.deck]
              : r2 \in draw(r1.deck) }
            : r1 \in draw(d) }

RECURSIVE fold_non_aces(_, _)
fold_non_aces(cards, acc) ==
    IF cards = <<>>
    THEN acc
    ELSE fold_non_aces(Tail(cards),
                       IF Head(cards)[1] # "Ace"
                       THEN U8(acc + get_value(Head(cards)[1]))
                       ELSE acc)

\* the ace fold counting an ace as 1 as soon as 11 would reach 21
RECURSIVE fold_aces_soft_below_21(_, _)
fold_aces_soft_below_21(cards, acc) ==
    IF cards = <<>>
    THEN acc
    ELSE fold_aces_soft_below_21(Tail(cards),
                   IF Head(cards)[1] = "Ace"
                   THEN IF U8(acc + get_value(Head(cards)[1])) >= 21
                        THEN U8(acc + 1)
                        ELSE U8(acc + get_value(Head(cards)[1]))
                   ELSE acc)

RECURSIVE fold_aces(_, _)
fold_aces(cards, acc) ==
    IF cards = <<>>
    THEN acc
    ELSE fold_aces(Tail(cards),
                   IF Head(cards)[1] = "Ace"
                   THEN IF U8(acc + get_value(Head(cards)[1])) > 21
                        THEN U8(acc + 1)
                        ELSE U8(acc + get_value(Head(cards)[1]))
                   ELSE acc)

count_value(hand) == fold_aces(hand.cards, fold_non_aces(hand.cards, 0))

is_bust(hand) == count_value(hand) > 21

\* Hand::hit: the possible pairs of hand and deck after one draw.
\* hit that stores the drawn card over the last card of the hand.
hit_overwrites_last_card(hand, d) ==
    { [hand |-> [hand EXCEPT !.cards = Append(SubSeq(@, 1, Len(@) - 1), r.card)],
       deck |-> r.deck]
      : r \in draw(d) }

hit(hand, d) ==
    { [hand |-> [hand EXCEPT !.cards = Append(@, r.card)], deck |-> r.deck]
      : r \in draw(d) }

is_active(hand) == hand.status = "Active"

\* hold that leaves the status as it was.
hold_keeps_status(hand) == hand

hold(hand) == [hand EXCEPT !.status = "Hold"]

\* the dealer policy hitting on 16 as well
do_dealer_action_hits_on_16(hand, d) ==
    IF count_value(hand) <= 16
    THEN hit(hand, d)
    ELSE {[hand |-> hold(hand), deck |-> d]}

\* Policy that holds an Active hand of 16 or more and hits in every other
\* case, a hand that is no longer Active included.
do_dealer_action_hits_unless_active(hand, d) ==
    IF is_active(hand) /\ count_value(hand) >= 16
    THEN {[hand |-> hold(hand), deck |-> d]}
    ELSE hit(hand, d)

do_dealer_action(hand, d) ==
    IF count_value(hand) < 16
    THEN hit(hand, d)
    ELSE {[hand |-> hold(hand), deck |-> d]}

\* reveal that leaves the status as it is
reveal_keeps_status(hand) == hand

reveal(hand) == [hand EXCEPT !.status = "Revealed"]

----------------------------------------------------------------------------
(* Round controller *)

PlayingHand == [tag |-> "PlayingHand"]

HandScoreScreen(hand_result) == [tag |-> "HandScoreScreen", result |-> hand_result]

\* the comparison with Less and Greater exchanged
cmp_result_swapped(player_value, dealer_value) ==
    IF player_value < dealer_value THEN "PlayerWin"
    ELSE IF player_value = dealer_value THEN "Push"
    ELSE "DealerWin"

\* u8::cmp mapped to the hand result
cmp_result(player_value, dealer_value) ==
    IF player_value < dealer_value THEN "DealerWin"
    ELSE IF player_value = dealer_value THEN "Push"
    ELSE "PlayerWin"

\* check_hand testing the dealer's bust before the player's
check_hand_dealer_first(player, dealer, gs) ==
    LET gs1 == IF ~is_bust(player) /\ ~is_active(player) /\ ~is_active(dealer)
               THEN HandScoreScreen(cmp_result(count_value(player), count_value(dealer)))
               ELSE IF is_bust(dealer)
               THEN HandScoreScreen("PlayerWin")
               ELSE IF is_bust(player)
               THEN HandScoreScreen("Bust")
               ELSE gs
    IN  IF gs1.tag = "HandScoreScreen"
        THEN [dealer |-> reveal(dealer), gs |-> gs1, reveals |-> 1]
        ELSE [dealer |-> dealer, gs |-> gs1, reveals |-> 0]

\* check_hand without the dealer-bust branch.
check_hand_no_dealer_bust(player, dealer, gs) ==
    LET gs1 == IF ~is_bust(player) /\ ~is_active(player) /\ ~is_active(dealer)
               THEN HandScoreScreen(cmp_result(count_value(player), count_value(dealer)))
               ELSE IF is_bust(player)
               THEN HandScoreScreen("Bust")
               ELSE gs
    IN  IF gs1.tag = "HandScoreScreen"
        THEN [dealer |-> reveal(dealer), gs |-> gs1, reveals |-> 1]
        ELSE [dealer |-> dealer, gs |-> gs1, reveals |-> 0]

\* check_hand: the dealer hand and game state it leaves, and the number of
\* reveal calls it made.
check_hand(player, dealer, gs) ==
    LET gs1 == IF ~is_bust(player) /\ ~is_active(player) /\ ~is_active(dealer)
               THEN HandScoreScreen(cmp_result(count_value(player), count_value(dealer)))
               ELSE IF is_bust(player)
               THEN HandScoreScreen("Bust")
               ELSE IF is_bust(dealer)
               THEN HandScoreScreen("PlayerWin")
               ELSE gs
    IN  IF gs1.tag = "HandScoreScreen"
        THEN [dealer |-> reveal(dealer), gs |-> gs1, reveals |-> 1]
        ELSE [dealer |-> dealer, gs |-> gs1, reveals |-> 0]

\* The objects a key handler borrows, with the calls made so far.
Borrowed ==
    [player |-> player_hand, dealer |-> dealer_hand, deck |-> deck, gs |-> game_state,
     reveals |-> 0, steps |-> 0, checks |-> 0, back |-> 0, shuffles |-> 0]

\* 1 for a status assignment that leaves Revealed or returns to Active.
StatusBack(before, after) ==
    IF (before = "Revealed" /\ after # "Revealed") \/ (before # "Active" /\ after = "Active")
    THEN 1
    ELSE 0

\* 1 if the draws that took a hand from before to after replaced the deck d.
Reshuffles(before, after, d) ==
    IF Len(after.cards) > Len(before.cards) /\ d = <<>> THEN 1 ELSE 0

\* player_hand.hit(&mut deck)
call_player_hit(c) ==
    { [c EXCEPT !.player = r.hand, !.deck = r.deck,
                !.shuffles = @ + Reshuffles(c.player, r.hand, c.deck)]
      : r \in hit(c.player, c.deck) }

\* dealer_hand.do_dealer_action(&mut deck)
call_dealer_action(c) ==
    { [c EXCEPT !.dealer = r.hand, !.deck = r.deck, !.steps = @ + 1,
                !.back = @ + StatusBack(c.dealer.status, r.hand.status),
                !.shuffles = @ + Reshuffles(c.dealer, r.hand, c.deck)]
      : r \in do_dealer_action(c.dealer, c.deck) }

\* check_hand(&player_hand, &mut dealer_hand, &mut game_state)
call_check_hand(c) ==
    LET r == check_hand(c.player, c.dealer, c.gs)
    IN  [c EXCEPT !.dealer = r.dealer, !.gs = r.gs,
                  !.reveals = @ + r.reveals, !.checks = @ + 1,
                  !.back = @ + StatusBack(c.dealer.status, r.dealer.status)]

\* player_hand.hold()
call_player_hold(c) ==
    [c EXCEPT !.player = hold(@),
              !.back = @ + StatusBack(c.player.status, hold(c.player).status)]

\* Loop that goes on while the dealer hand is not bust, Active or not.
RECURSIVE dealer_loop_until_bust(_)
dealer_loop_until_bust(c) ==
    IF ~is_bust(c.dealer) /\ c.steps < MaxDealerSteps
    THEN UNION { dealer_loop_until_bust(call_check_hand(c1)) : c1 \in call_dealer_action(c) }
    ELSE {c}

\* The while loop of the Hold branch, run to its end (or given up after
\* MaxDealerSteps policy steps).
RECURSIVE dealer_loop(_)
dealer_loop(c) ==
    IF is_active(c.dealer) /\ ~is_bust(c.dealer) /\ c.steps < MaxDealerSteps
    THEN UNION { dealer_loop(call_check_hand(c1)) : c1 \in call_dealer_action(c) }
    ELSE {c}

\* The handler's result written back, with the record of its calls.
Return(op, c) ==
    /\ player_hand' = c.player
    /\ dealer_hand' = c.dealer
    /\ deck' = c.deck
    /\ game_state' = c.gs
    /\ last' = [op |-> op, reveals |-> c.reveals, steps |-> c.steps,
                checks |-> c.checks, back |-> c.back,
                dealt_across |-> last.dealt_across,
                reshuffled |-> (last.reshuffled \/ c.shuffles > 0)]

NoCalls(op) ==
    [op |-> op, reveals |-> 0, steps |-> 0, checks |-> 0, back |-> 0,
     dealt_across |-> FALSE, reshuffled |-> FALSE]

\* the Hit branch leaving the dealer alone once the player is bust
Hit_no_dealer_step_after_bust ==
    /\ running
    /\ game_state.tag = "PlayingHand"
    /\ \E c1 \in call_player_hit(Borrowed) :
         \E c2 \in (IF is_bust(c1.player) THEN {c1} ELSE call_dealer_action(c1)) :
            Return("Hit", call_check_hand(c2))
    /\ UNCHANGED <<running, unit_vars>>

\* Key '1' while a hand is played.
Hit ==
    /\ running
    /\ game_state.tag = "PlayingHand"
    /\ \E c1 \in call_player_hit(Borrowed) :
         \E c2 \in call_dealer_action(c1) :
            Return("Hit", call_check_hand(c2))
    /\ UNCHANGED <<running, unit_vars>>

\* Key '2' while a hand is played.
\* Hold branch without the dealer loop: hold, then check_hand.
Hold_no_dealer_loop ==
    /\ running
    /\ game_state.tag = "PlayingHand"
    /\ Return("Hold", call_check_hand(call_player_hold(Borrowed)))
    /\ UNCHANGED <<running, unit_vars>>

Hold ==
    /\ running
    /\ game_state.tag = "PlayingHand"
    /\ \E c1 \in dealer_loop(call_player_hold(Borrowed)) :
            Return("Hold", call_check_hand(c1))
    /\ UNCHANGED <<running, unit_vars>>

\* the new round dealing the player only
NewRound_keeps_dealer_hand ==
    /\ running
    /\ game_state.tag = "HandScoreScreen"
    /\ \E p \in new_hand(deck) :
            /\ player_hand' = p.hand
            /\ deck' = p.deck
            /\ game_state' = PlayingHand
            /\ last' = NoCalls("NewRound")
    /\ UNCHANGED <<dealer_hand, running, unit_vars>>

\* Any key but 'q' and Esc on the score screen.
NewRound ==
    /\ running
    /\ game_state.tag = "HandScoreScreen"
    /\ \E p \in new_hand(deck) :
         \E d \in new_hand(p.deck) :
            /\ player_hand' = p.hand
            /\ dealer_hand' = d.hand
            /\ deck' = d.deck
            /\ game_state' = PlayingHand
            /\ last' = [NoCalls("NewRound") EXCEPT
                            !.dealt_across = (Len(deck) < Len(p.hand.cards) + Len(d.hand.cards))]
    /\ UNCHANGED <<running, unit_vars>>

\* 'q' or Esc in either state: the loop is left.
Quit ==
    /\ running
    /\ running' = FALSE
    /\ UNCHANGED <<deck, player_hand, dealer_hand, game_state, last, unit_vars>>

UnitOff ==
    /\ u_hand = Hand_new(<<>>)
    /\ u_deck = <<>>
    /\ u_value = 0
    /\ u_bust = FALSE
    /\ u_pc = "off"

\* run_as_tui up to the loop: a fresh deck and the two hands dealt from it.
Init ==
    /\ running = TRUE
    /\ game_state = PlayingHand
    /\ \E d0 \in Deck_new :
         \E p \in new_hand(d0) :
            \E d \in new_hand(p.deck) :
               /\ player_hand = p.hand
               /\ dealer_hand = d.hand
               /\ deck = d.deck
    /\ last = NoCalls("Deal")
    /\ UnitOff

Next == Hit \/ Hold \/ NewRound \/ Quit

Spec == Init /\ [][Next]_vars

----------------------------------------------------------------------------
(* The Hand methods on their own: count_value, is_bust and do_dealer_action  *)
(* applied to every hand of up to MaxHandLen cards.  count_value matches on  *)
(* the rank alone (Card(kind, _)), so one suit of cards is enough.           *)

UnitCards == { Card(Ranks[i], Suits[1]) : i \in 1..Len(Ranks) }

UnitHands ==
    { Hand_new(cs) : cs \in UNION { [1..n -> UnitCards] : n \in 0..MaxHandLen } }

\* The decks handed to do_dealer_action: the first cards of the playing deck
\* (the empty deck, which reshuffles, among them) and every single card.
UnitDecks ==
    { SubSeq(PlayDeck, 1, k) : k \in 0..MaxUnitDeck } \cup { <<c>> : c \in UnitCards }

GameOff ==
    /\ running = FALSE
    /\ game_state = PlayingHand
    /\ player_hand = Hand_new(<<>>)
    /\ dealer_hand = Hand_new(<<>>)
    /\ deck = <<>>
    /\ last = NoCalls("Off")

InitUnit ==
    /\ u_hand \in UnitHands
    /\ u_deck \in UnitDecks
    /\ u_value = 0
    /\ u_bust = FALSE
    /\ u_pc = "input"
    /\ GameOff

\* hand.count_value() and hand.is_bust()
Count ==
    /\ u_pc = "input"
    /\ u_value' = count_value(u_hand)
    /\ u_bust' = is_bust(u_hand)
    /\ u_pc' = "counted"
    /\ UNCHANGED <<u_hand, u_deck, game_vars>>

\* hand.do_dealer_action(&mut deck)
DealerStep ==
    /\ u_pc = "input"
    /\ \E r \in do_dealer_action(u_hand, u_deck) :
         /\ u_hand' = r.hand
         /\ u_deck' = r.deck
    /\ u_pc' = "stepped"
    /\ UNCHANGED <<u_value, u_bust, game_vars>>

NextUnit == Count \/ DealerStep

SpecUnit == InitUnit /\ [][NextUnit]_vars

----------------------------------------------------------------------------
(* What the properties below are stated with *)

Reverse(s) == [i \in 1..Len(s) |-> s[Len(s) + 1 - i]]

\* s holds each card of the canonical deck, once.
IsFreshDeck(s) ==
    /\ Len(s) = Len(PlayDeck)
    /\ \A i \in 1..Len(PlayDeck) : \E j \in 1..Len(s) : s[j] = PlayDeck[i]

\* The cards of drawn were taken one after the other from the end of the
\* deck before, which leaves the deck after; a deck that ran out was replaced
\* by a fresh one first.  (For no more draws than one fresh deck supplies.)
DrawnFrom(before, drawn, after) ==
    IF Len(drawn) <= Len(before)
    THEN before = after \o Reverse(drawn)
    ELSE /\ SubSeq(drawn, 1, Len(before)) = Reverse(before)
         /\ IsFreshDeck(after \o Reverse(SubSeq(drawn, Len(before) + 1, Len(drawn))))

IsExtension(cards, longer, n) ==
    /\ Len(longer) = Len(cards) + n
    /\ SubSeq(longer, 1, Len(cards)) = cards

RanksOf(cards) == [i \in 1..Len(cards) |-> cards[i][1]]

\* The fixed point value of a rank: Two..Ten their number, the court cards 10,
\* the Ace 11.
PointValue(rank) ==
    LET i == CHOOSE k \in 1..Len(Ranks) : Ranks[k] = rank
    IN  IF i <= 9 THEN i + 1 ELSE IF i <= 12 THEN 10 ELSE 11

RECURSIVE NonAceTotal(_)
NonAceTotal(cards) ==
    IF cards = <<>> THEN 0
    ELSE (IF Head(cards)[1] = "Ace" THEN 0 ELSE PointValue(Head(cards)[1]))
         + NonAceTotal(Tail(cards))

AcesIn(cards) == Cardinality({ i \in 1..Len(cards) : cards[i][1] = "Ace" })

\* n aces added to a running total: 11 while the total stays <= 21, else 1.
RECURSIVE AddAces(_, _)
AddAces(n, total) ==
    IF n = 0 THEN total
    ELSE AddAces(n - 1, IF total + 11 <= 21 THEN total + 11 ELSE total + 1)

\* The total of a hand with every Ace counted as 1.
HardTotal(cards) == NonAceTotal(cards) + AcesIn(cards)

----------------------------------------------------------------------------
(* Properties of the round controller, checked under Spec *)

\* C1: whenever a Hit or a Hold returns with the player hand not bust and the
\* dealer hand bust, the game state is HandScoreScreen(PlayerWin).
C1_DealerBustIsPlayerWin ==
    (last.op \in {"Hit", "Hold"} /\ ~is_bust(player_hand) /\ is_bust(dealer_hand))
        => game_state = HandScoreScreen("PlayerWin")

\* C2: whenever a Hit leaves the player hand bust, the game state on return is
\* HandScoreScreen(Bust), whatever the dealer hand is.
C2_PlayerBustIsBust ==
    (last.op = "Hit" /\ is_bust(player_hand))
        => game_state = HandScoreScreen("Bust")

\* A Hit that bust the player and, by its dealer step, the dealer as well.
C2_Witness ==
    /\ last.op = "Hit"
    /\ is_bust(player_hand)
    /\ is_bust(dealer_hand)
    /\ game_state = HandScoreScreen("Bust")

\* C3: a round resolved with neither hand bust has both hands non-Active and
\* the outcome of comparing the two values (greater: PlayerWin, equal: Push,
\* less: DealerWin); and while neither hand is bust and a hand is still
\* Active the state is PlayingHand.
C3_OutcomeByComparison ==
    /\ (game_state.tag = "HandScoreScreen" /\ ~is_bust(player_hand) /\ ~is_bust(dealer_hand))
          => /\ player_hand.status # "Active"
             /\ dealer_hand.status # "Active"
             /\ count_value(player_hand) > count_value(dealer_hand)
                   => game_state.result = "PlayerWin"
             /\ count_value(player_hand) = count_value(dealer_hand)
                   => game_state.result = "Push"
             /\ count_value(player_hand) < count_value(dealer_hand)
                   => game_state.result = "DealerWin"
    /\ (/\ ~is_bust(player_hand)
        /\ ~is_bust(dealer_hand)
        /\ (player_hand.status = "Active" \/ dealer_hand.status = "Active"))
          => game_state = PlayingHand

\* A round the player won on points: the dealer stood on exactly 16.
C3_Witness ==
    /\ last.op = "Hold"
    /\ game_state = HandScoreScreen("PlayerWin")
    /\ count_value(dealer_hand) = 16
    /\ count_value(player_hand) \in 17..21

\* C4: at every input boundary in HandScoreScreen the dealer hand is Revealed.
C4_ScoreScreenRevealed ==
    game_state.tag = "HandScoreScreen" => dealer_hand.status = "Revealed"

\* A score screen reached by a Hit.
C4_Witness ==
    /\ game_state.tag = "HandScoreScreen"
    /\ last.op = "Hit"
    /\ dealer_hand.status = "Revealed"

\* C5: an action that moves the game from PlayingHand to HandScoreScreen
\* calls reveal on the dealer hand exactly once.  (On the score screen, last
\* is the record of the Hit or Hold that ended the round.)
C5_RevealExactlyOnce ==
    game_state.tag = "HandScoreScreen" => last.reveals = 1


\* C6: from HandScoreScreen, a new-round action (a step that does not quit)
\* yields PlayingHand with a player hand and a dealer hand of exactly two
\* cards each, both Active, the four cards drawn from the shared deck (the
\* player's two first).
C6_NewRoundDeals ==
    [][(game_state.tag = "HandScoreScreen" /\ running')
         => /\ game_state' = PlayingHand
            /\ Len(player_hand'.cards) = 2
            /\ Len(dealer_hand'.cards) = 2
            /\ player_hand'.status = "Active"
            /\ dealer_hand'.status = "Active"
            /\ DrawnFrom(deck, player_hand'.cards \o dealer_hand'.cards, deck')]_vars

\* A new round dealt across a reshuffle: two cards from the old deck, two
\* from the fresh one.
C6_Witness ==
    /\ last.op = "NewRound"
    /\ game_state = PlayingHand
    /\ Len(deck) = Len(PlayDeck) - 2

\* C7: a Hit appends exactly one drawn card to the player hand, then performs
\* exactly one dealer policy step (the dealer hand grows by one card iff its
\* value was below 16), then evaluates the end condition once; also when the
\* Hit busts the player.
C7_HitSteps ==
    [][(game_state.tag = "PlayingHand" /\ running' /\ last'.op = "Hit")
         => LET grows == count_value(dealer_hand) < 16
                pc == player_hand'.cards
                dc == dealer_hand'.cards
            IN  /\ IsExtension(player_hand.cards, pc, 1)
                /\ player_hand'.status = "Active"
                /\ last'.steps = 1
                /\ IsExtension(dealer_hand.cards, dc, IF grows THEN 1 ELSE 0)
                /\ last'.checks = 1
                /\ DrawnFrom(deck,
                             <<pc[Len(pc)]>> \o (IF grows THEN <<dc[Len(dc)]>> ELSE <<>>),
                             deck')]_vars

\* The first Hit of a round bust the player, and the dealer drew in it.
C7_Witness ==
    /\ last.op = "Hit"
    /\ last.steps = 1
    /\ Len(player_hand.cards) = 3
    /\ Len(dealer_hand.cards) = 3
    /\ is_bust(player_hand)

\* C10: a hand is scored as bust only if its total with every Ace counted as
\* 1 exceeds 21.
C10_BustOnlyIfHardTotalOver21 ==
    \A h \in {player_hand, dealer_hand} :
        is_bust(h) => HardTotal(h.cards) > 21

----------------------------------------------------------------------------
(* Properties of the Hand methods, checked under SpecUnit *)

\* C8: one dealer policy step on a hand of value below 16 appends exactly one
\* drawn card and leaves the status Active; on a hand of value 16 or more it
\* sets the status to Held and leaves the cards and the deck unchanged.
C8_DealerPolicyStep ==
    [][(u_pc = "input" /\ u_pc' = "stepped")
         => IF count_value(u_hand) < 16
            THEN /\ IsExtension(u_hand.cards, u_hand'.cards, 1)
                 /\ u_hand'.status = "Active"
                 /\ DrawnFrom(u_deck, <<u_hand'.cards[Len(u_hand'.cards)]>>, u_deck')
            ELSE /\ u_hand'.status = "Hold"
                 /\ u_hand'.cards = u_hand.cards
                 /\ u_deck' = u_deck]_vars

\* The boundary: a dealer hand of exactly 16 was held.
C8_Witness ==
    /\ u_pc = "stepped"
    /\ count_value(u_hand) = 16
    /\ u_hand.status = "Hold"
    /\ Len(u_hand.cards) = 2

\* C9: count_value is the sum of the fixed point values of the non-Ace cards
\* plus, for each Ace, 11 if the running total stays <= 21 and 1 otherwise;
\* {Ace, Ace} = 12, {Ace, King} = 21, {Ace, Ace, Nine} = 21, {Ten, King} = 20;
\* and is_bust is count_value > 21.
C9_CountValue ==
    u_pc = "counted"
        => /\ u_value = AddAces(AcesIn(u_hand.cards), NonAceTotal(u_hand.cards))
           /\ u_bust = (u_value > 21)
           /\ RanksOf(u_hand.cards) = <<"Ace", "Ace">> => u_value = 12
           /\ RanksOf(u_hand.cards) = <<"Ace", "King">> => u_value = 21
           /\ RanksOf(u_hand.cards) = <<"Ace", "Ace", "Nine">> => u_value = 21
           /\ RanksOf(u_hand.cards) = <<"Ten", "King">> => u_value = 20

\* {Ace, Ace, Nine} was counted as 21.
C9_Witness ==
    /\ u_pc = "counted"
    /\ RanksOf(u_hand.cards) = <<"Ace", "Ace", "Nine">>
    /\ u_value = 21
    /\ ~u_bust

\* ------------------------------------------------------------------------
\* Claims about the game: termination, the deck and the hands (Spec).

\* C11: the dealer loop run by a Hold always ends, whatever the deck order and
\* across reshuffles: on return the dealer hand is no longer "Active and not
\* bust", the dealer took at most 21 cards in it, and the loop made at most
\* one policy step (the hold) more than it took cards.
C11_HoldLoopEnds ==
    [][(running /\ game_state.tag = "PlayingHand" /\ running' /\ last'.op = "Hold")
          => /\ ~(is_active(dealer_hand') /\ ~is_bust(dealer_hand'))
             /\ Len(dealer_hand'.cards) - Len(dealer_hand.cards) <= 21
             /\ last'.steps <= Len(dealer_hand'.cards) - Len(dealer_hand.cards) + 1
             /\ last'.steps < MaxDealerSteps]_vars

\* A Hold whose loop took two cards for the dealer, with a reshuffle on the
\* way.
C11_Witness ==
    /\ last.op = "Hold"
    /\ last.steps >= 2
    /\ Len(dealer_hand.cards) >= 4
    /\ last.reshuffled

\* The 52 cards of the canonical order.
CanonicalCards == { NEW_DECK[i] : i \in DOMAIN NEW_DECK }

\* No card occurs twice in s.
AllDistinct(s) == \A i, j \in 1..Len(s) : i # j => s[i] # s[j]

\* C13: in every reachable state the deck holds between 0 and 52 cards (no
\* more than a full deck), each a (Rank, Suit) pair of the 52 canonical
\* cards, and no card twice.
C13_DeckIsSetOfCanonicalCards ==
    /\ Cardinality(CanonicalCards) = 52
    /\ Len(deck) <= Cardinality(CanonicalCards)
    /\ Len(deck) <= Len(PlayDeck)
    /\ \A i \in 1..Len(deck) :
          /\ deck[i] \in CanonicalCards
          /\ \E r \in 1..Len(Ranks), t \in 1..Len(Suits) : deck[i] = Card(Ranks[r], Suits[t])
    /\ AllDistinct(deck)

\* A Hit found the deck empty and left the fresh deck less one card.
C13_Witness ==
    /\ running
    /\ last.op = "Hit"
    /\ last.reshuffled
    /\ Len(deck) = Len(PlayDeck) - 1

\* The cards a step gave to a hand: all of them when the step dealt the hand
\* anew (from the score screen), those past the old length otherwise.
Gained(new_round, before, after) ==
    IF new_round
    THEN after.cards
    ELSE SubSeq(after.cards, Len(before.cards) + 1, Len(after.cards))

\* C14: draw never fails and every draw of a step that goes on playing took
\* the last card of the deck and left the rest in place, so that as many
\* draws as the deck has cards empty it; a draw from the empty deck replaced
\* it by a fresh shuffled full deck first and returned one of its cards (a
\* single such draw leaves the full deck less one card).
C14_DrawTakesLastOrReshuffles ==
    [][running'
          => LET new_round == game_state.tag = "HandScoreScreen"
                 drawn == Gained(new_round, player_hand, player_hand')
                            \o Gained(new_round, dealer_hand, dealer_hand')
             IN  /\ DrawnFrom(deck, drawn, deck')
                 /\ Len(drawn) <= Len(deck) => Len(deck') = Len(deck) - Len(drawn)
                 /\ (Len(drawn) = Len(deck) /\ IsFreshDeck(deck)) => deck' = <<>>
                 /\ (deck = <<>> /\ Len(drawn) = 1)
                       => /\ Len(deck') = Len(PlayDeck) - 1
                          /\ \E i \in 1..Len(PlayDeck) : drawn[1] = PlayDeck[i]
                          /\ \A i \in 1..Len(deck') : deck'[i] # drawn[1]]_vars

\* A Hit drew its one card from the empty deck: the dealer hand, held, took
\* none, and the fresh deck is left with one card less.
C14_Witness ==
    /\ running
    /\ last.op = "Hit"
    /\ last.reshuffled
    /\ dealer_hand.status = "Hold"
    /\ Len(dealer_hand.cards) = 2
    /\ Len(player_hand.cards) = 3
    /\ Len(deck) = Len(PlayDeck) - 1

\* shorter is the beginning of longer.
IsPrefix(shorter, longer) ==
    /\ Len(shorter) <= Len(longer)
    /\ SubSeq(longer, 1, Len(shorter)) = shorter

\* C15: each hand always has at least 2 cards, and every action other than
\* the start of a new round (a Hit, a Hold, a quit) leaves the cards a hand
\* had as the unchanged beginning of the cards it has afterwards.
C15_HandsGrowByAppending ==
    [][/\ Len(player_hand.cards) >= 2 /\ Len(dealer_hand.cards) >= 2
       /\ Len(player_hand'.cards) >= 2 /\ Len(dealer_hand'.cards) >= 2
       /\ (game_state.tag = "PlayingHand" \/ ~running')
             => /\ IsPrefix(player_hand.cards, player_hand'.cards)
                /\ IsPrefix(dealer_hand.cards, dealer_hand'.cards)]_vars

\* Both hands grew in the round: the player hand by two Hits, the dealer hand
\* by a policy step.
C15_Witness ==
    /\ last.op = "Hit"
    /\ Len(player_hand.cards) >= 4
    /\ Len(dealer_hand.cards) >= 3

\* C16: a hand whose status is Held gets no card for the rest of the round:
\* every action other than the start of a new round leaves the cards of a
\* Held hand as they are; in particular the policy step of a later Hit does
\* not append to a dealer hand that is already Held.
C16_HeldHandGetsNoCard ==
    [][(game_state.tag = "PlayingHand" \/ ~running')
          => /\ dealer_hand.status = "Hold" => dealer_hand'.cards = dealer_hand.cards
             /\ player_hand.status = "Hold" => player_hand'.cards = player_hand.cards]_vars

\* The dealer held its two cards on the first Hit of the round, and after a
\* second Hit, with the round still open, it has those two cards.
C16_Witness ==
    /\ running
    /\ game_state.tag = "PlayingHand"
    /\ last.op = "Hit"
    /\ dealer_hand.status = "Hold"
    /\ Len(dealer_hand.cards) = 2
    /\ Len(player_hand.cards) = 4

\* C17: within a round the status of a hand moves one way: a hand that is no
\* longer Active is not Active after any action other than the start of a
\* new round, a Revealed dealer hand stays Revealed, and no handler assigned
\* a status that left Revealed or returned to Active on its way.
C17_StatusOneDirectional ==
    [][(game_state.tag = "PlayingHand" \/ ~running')
          => /\ player_hand.status # "Active" => player_hand'.status # "Active"
             /\ dealer_hand.status # "Active" => dealer_hand'.status # "Active"
             /\ dealer_hand.status = "Revealed" => dealer_hand'.status = "Revealed"
             /\ last'.back = 0]_vars

\* The dealer hand was held with its two cards on the first Hit, and revealed
\* when the second Hit ended the round.
C17_Witness ==
    /\ game_state.tag = "HandScoreScreen"
    /\ last.op = "Hit"
    /\ last.reveals = 1
    /\ dealer_hand.status = "Revealed"
    /\ Len(dealer_hand.cards) = 2
    /\ Len(player_hand.cards) = 4

\* C18: every Hold issued in PlayingHand ends the round: when it returns the
\* game state is HandScoreScreen with one of the four outcomes, never
\* PlayingHand, so that no input boundary shows a Held player hand facing an
\* Active dealer hand.
C18_HoldEndsRound ==
    [][(running /\ game_state.tag = "PlayingHand" /\ running' /\ last'.op = "Hold")
          => /\ game_state'.tag = "HandScoreScreen"
             /\ game_state'.result \in {"PlayerWin", "DealerWin", "Push", "Bust"}
             /\ player_hand'.status = "Hold"
             /\ ~is_active(dealer_hand')]_vars

\* A Hold in which the dealer played (two policy steps or more) ended on the
\* score screen.
C18_Witness ==
    /\ last.op = "Hold"
    /\ last.steps >= 2
    /\ game_state.tag = "HandScoreScreen"
    /\ player_hand.status = "Hold"

\* C19: at every input boundary in PlayingHand the player hand is Active and
\* not bust, the dealer hand is not bust and Active or Held, never Revealed,
\* and a Held dealer hand has a count_value of 16 or more.
C19_PlayingHandShape ==
    (running /\ game_state.tag = "PlayingHand")
        => /\ player_hand.status = "Active"
           /\ count_value(player_hand) <= 21
           /\ ~is_bust(player_hand)
           /\ count_value(dealer_hand) <= 21
           /\ ~is_bust(dealer_hand)
           /\ dealer_hand.status \in {"Active", "Hold"}
           /\ dealer_hand.status = "Hold" => count_value(dealer_hand) >= 16

\* After a Hit the round is open, the dealer hand Held at exactly 16 and the
\* player hand at exactly 21.
C19_Witness ==
    /\ running
    /\ game_state.tag = "PlayingHand"
    /\ last.op = "Hit"
    /\ dealer_hand.status = "Hold"
    /\ count_value(dealer_hand) = 16
    /\ count_value(player_hand) = 21

\* The cards in play: those of the player hand, of the dealer hand and of the
\* deck.
CardsInPlay == player_hand.cards \o dealer_hand.cards \o deck

\* C20: as long as no draw has reshuffled the deck since the hands of the
\* current round were dealt, the cards of the player hand, of the dealer hand
\* and of the deck are pairwise distinct.
C20_DistinctSinceDeal ==
    (running /\ ~last.reshuffled) => AllDistinct(CardsInPlay)

\* C20, amended: as long as the deck has been reshuffled neither while the
\* hands of the current round were dealt nor since, the cards of the player
\* hand, of the dealer hand and of the deck are pairwise distinct, and they
\* are no more than a full deck.
C20_DistinctWithoutReshuffle ==
    (running /\ ~last.reshuffled /\ ~last.dealt_across)
        => /\ AllDistinct(CardsInPlay)
           /\ Len(CardsInPlay) <= Len(PlayDeck)

\* A Hit was played in a round dealt and played from one deck, without a
\* reshuffle.
C20_Witness ==
    /\ running
    /\ last.op = "Hit"
    /\ ~last.reshuffled
    /\ ~last.dealt_across
    /\ Len(player_hand.cards) >= 3
    /\ AllDistinct(CardsInPlay)

\* ------------------------------------------------------------------------
\* Claims about the value of a hand that is hit (SpecUnit).

\* C12: when a policy step appends a card to a dealer hand (two cards or
\* more, value below 16), the hand's count_value does not decrease.
C12_ValueNeverDecreases ==
    [][(u_pc = "input" /\ u_pc' = "stepped" /\ Len(u_hand.cards) >= 2
            /\ count_value(u_hand) < 16)
          => count_value(u_hand') >= count_value(u_hand)]_vars

\* C12, amended: the total with every Ace counted as 1 grows with every card
\* a policy step appends, and count_value does not decrease when the hand hit
\* had no Ace counted as 11 (its count_value was that total).
C12_HardValueNeverDecreases ==
    [][(u_pc = "input" /\ u_pc' = "stepped" /\ Len(u_hand.cards) >= 2
            /\ count_value(u_hand) < 16)
          => /\ HardTotal(u_hand'.cards) > HardTotal(u_hand.cards)
             /\ count_value(u_hand) = HardTotal(u_hand.cards)
                   => count_value(u_hand') >= count_value(u_hand)]_vars

\* {King, Five} (15, no Ace) was hit with an Ace and counts 16.
C12_Witness ==
    /\ u_pc = "stepped"
    /\ RanksOf(u_hand.cards) = <<"King", "Five", "Ace">>
    /\ count_value(u_hand) = 16
    /\ u_hand.status = "Active"

====
